---------------------------- MODULE Spec2Model ----------------------------
(***************************************************************************)
(* gauthctl: the state-file lifecycle of src/gauthctl.c.                   *)
(*                                                                         *)
(* The file system is a directory (path -> inode number, 0 = no entry)     *)
(* and the inodes' contents; a process keeps a file open by inode, so an   *)
(* unlinked or renamed file stays writable through its descriptor.  Every  *)
(* process runs main() one system call at a time; system calls of          *)
(* different processes interleave.  Paths and user names are sequences of  *)
(* characters, built the way snprintf builds them.                         *)
(***************************************************************************)
EXTENDS Integers, Sequences, FiniteSets, TLC

(* ------------------------------ bounds --------------------------------- *)

\* longest payload delivered on fd 3
MaxLen == 2

\* longest command line (argv without argv[0])
MaxArgs == 2

\* how many times an operation or an invocation is repeated in a row
MaxRuns == 2

(* ------------------------- program constants --------------------------- *)

\* enum command
CMD_NULL == 0
CMD_ENABLE == 1
CMD_DISABLE == 2
CMD_STATUS == 3
CMD_NEXT == 4

\* char buf[4096] of the copy loop
BufSize == 4096

\* 0600, the mode enable() passes to open()
MODE_0600 == 384

\* umask(077)
UMASK == 63

\* the compiled-in state directory (-DGAUTH_STATEDIR), here "/s"
GAUTH_STATEDIR == <<"/", "s">>

\* a NULL pointer (malloc failed, getpwuid found nothing)
NULL == <<>>

\* `bool ret` of main: never assigned, true, false
UNINIT == "uninit"
true == "true"
false == "false"

(* ------------------------------ the world ------------------------------ *)

\* processes that may run at the same time
Procs == {1, 2}

root == <<"r">>
alice == <<"a">>
bob == <<"b">>
\* a name with a '/' in it: "../a"
dotdot == <<".", ".", "/", "a">>

\* an account whose name is alice's with ".new" at its end; it runs no
\* command in the model, but its state file may be there
anew == alice \o <<".", "n", "e", "w">>

NameSeq == <<root, alice, bob, dotdot>>
Names == {NameSeq[i] : i \in 1..Len(NameSeq)}

\* the password database read by getpwuid: uid -> pw_name, NULL if no entry
Uids == {0, 1000, 1001, 1002}
getpwuid(u) ==
  CASE u = 0 -> root
    [] u = 1000 -> alice
    [] u = 1001 -> bob
    [] u = 1003 -> anew
    [] OTHER -> NULL

\* get_state_path: snprintf(buf, "%s/%s", GAUTH_STATEDIR, username)
get_state_path(username) == GAUTH_STATEDIR \o <<"/">> \o username

\* the temporary file name of enable: snprintf(tmp_buf, "%s.new", state_path)
temp_path(state_path) == state_path \o <<".", "n", "e", "w">>

PathSeq ==
  [i \in 1..(2 * Len(NameSeq)) |->
     IF i % 2 = 1 THEN get_state_path(NameSeq[(i + 1) \div 2])
                  ELSE temp_path(get_state_path(NameSeq[i \div 2]))]
Paths == {PathSeq[i] : i \in 1..Len(PathSeq)}

\* inode numbers: one per path that can exist at the start, one more per process
InoIds == 1..(Len(PathSeq) + Cardinality(Procs))

Bytes == {1, 2}
RECURSIVE SeqsUpTo(_, _)
SeqsUpTo(S, n) ==
  IF n = 0 THEN {<<>>}
  ELSE LET shorter == SeqsUpTo(S, n - 1)
       IN shorter \cup {Append(s, x) : s \in shorter, x \in S}
Payloads == SeqsUpTo(Bytes, MaxLen)

\* contents of the files that exist before the program runs
OldData == <<7>>
StaleData == <<8, 8>>
\* what Content says of a path with no directory entry
Absent == <<-1>>

VARIABLES dir, data, proc, trace, pre

vars == <<dir, data, proc, trace, pre>>

(* ---------------------------- command line ----------------------------- *)

\* one element of argv: the option it spells ("word" for a non-option) and
\* its text, which is what optarg points to when it is taken as an argument
Tok(o, t) == [opt |-> o, text |-> t]
Tokens ==
  { Tok("--enable", <<"-", "-", "e", "n", "a", "b", "l", "e">>),
    Tok("-e", <<"-", "e">>),
    Tok("--disable", <<"-", "-", "d", "i", "s", "a", "b", "l", "e">>),
    Tok("-d", <<"-", "d">>),
    Tok("--status", <<"-", "-", "s", "t", "a", "t", "u", "s">>),
    Tok("-s", <<"-", "s">>),
    Tok("-h", <<"-", "h">>),
    Tok("-V", <<"-", "V">>),
    Tok("-x", <<"-", "x">>),
    Tok("word", alice),
    Tok("word", bob),
    Tok("word", dotdot) }

RECURSIVE ArgvsUpTo(_)
ArgvsUpTo(n) ==
  IF n = 0 THEN {<<>>}
  ELSE LET shorter == ArgvsUpTo(n - 1)
       IN shorter \cup {Append(s, t) : s \in shorter, t \in Tokens}
Argvs == ArgvsUpTo(MaxArgs)

Parsed(k, c, g) == [kind |-> k, cmd |-> c, givenuser |-> g]

\* the getopt_long loop of main and the test after it.  optstring is
\* "e:d:shV": -e and -d take the next element as their argument, whatever it
\* is, and a missing argument is '?'.  GNU getopt permutes the non-options to
\* the end, so optind != argc exactly when there was one.  Each action option
\* overwrites cmd; -h, -V and an unknown option return at once.  ':' is never
\* returned (optstring does not begin with ':'), and `char opt` is taken to be
\* signed, so that -1 ends the loop.
RECURSIVE getopt_loop(_, _, _, _, _)
getopt_loop(argv, i, cmd, givenuser, nonopt) ==
  IF i > Len(argv)
  THEN IF cmd = CMD_NULL \/ nonopt > 0
       THEN Parsed("usage", cmd, givenuser)
       ELSE Parsed("run", cmd, givenuser)
  ELSE LET o == argv[i].opt IN
    CASE o = "word" -> getopt_loop(argv, i + 1, cmd, givenuser, nonopt + 1)
      [] o = "--enable" -> getopt_loop(argv, i + 1, CMD_ENABLE, givenuser, nonopt)
      [] o = "-e" ->
           IF i < Len(argv)
           THEN getopt_loop(argv, i + 2, CMD_ENABLE, givenuser, nonopt)
           ELSE Parsed("usage", cmd, givenuser)
      [] o \in {"-d", "--disable"} ->
           IF i < Len(argv)
           THEN getopt_loop(argv, i + 2, CMD_DISABLE, argv[i + 1].text, nonopt)
           ELSE Parsed("usage", cmd, givenuser)
      [] o \in {"-s", "--status"} ->
           getopt_loop(argv, i + 1, CMD_STATUS, givenuser, nonopt)
      [] o = "-h" -> Parsed("help", cmd, givenuser)
      [] o = "-V" -> Parsed("version", cmd, givenuser)
      [] OTHER -> Parsed("usage", cmd, givenuser)

(* ----------------------------- file system ----------------------------- *)

\* the inode a path names, 0 if none (a path outside Paths names nothing)
Lookup(d, path) == IF path \in Paths THEN d[path] ELSE 0

\* what a reader of path sees
Content(path) == IF Lookup(dir, path) = 0 THEN Absent ELSE data[Lookup(dir, path)]

\* unlink(path) succeeding, or failing with ENOENT
Unlink(d, path) == IF path \in Paths THEN [d EXCEPT ![path] = 0] ELSE d

\* an inode lives while a directory entry or an open descriptor refers to it
Referenced(d, pr, i) ==
  \/ \E path \in Paths : d[path] = i
  \/ \E q \in Procs : pr[q].out_fd = i

Reclaim(d, dt, pr) ==
  [i \in InoIds |-> IF Referenced(d, pr, i) THEN dt[i] ELSE <<>>]

NewInode == CHOOSE i \in InoIds :
  /\ ~Referenced(dir, proc, i)
  /\ \A j \in InoIds : j < i => Referenced(dir, proc, j)

\* every path's contents; pre keeps those of the initial state
Snapshot == [path \in Paths |-> Content(path)]

Min(a, b) == IF a < b THEN a ELSE b
Take(s, n) == SubSeq(s, 1, n)
Drop(s, n) == SubSeq(s, n + 1, Len(s))

(* ------------------------------- start --------------------------------- *)

\* a process: the variables of main and enable, the unread bytes of fd 3, and
\* what the claims look back at: payload (all of fd 3), written (the bytes write() took), short (a write took less
\* than it was given), closefail (close reported an error), diag (the error
\* message printed, by its kind)
IdleProc ==
  [pc |-> "idle", uid |-> 0, argv |-> <<>>, cmd |-> CMD_NULL, givenuser |-> NULL,
   username |-> NULL, state_path |-> NULL, tmp_buf |-> NULL, out_fd |-> 0,
   buf |-> <<>>, fd3 |-> <<>>, payload |-> <<>>, ret |-> UNINIT, exit |-> -1,
   diag |-> "", umask |-> 0,
   written |-> <<>>, short |-> FALSE, closefail |-> FALSE,
   errno |-> "", runs |-> 0, mode |-> -1, pam |-> <<>>, cleanfail |-> FALSE]

\* the files that may exist before the program runs: any user's state file,
\* and a temporary file that an interrupted enable of alice left behind
IndexOf(path) == CHOOSE i \in 1..Len(PathSeq) : PathSeq[i] = path

MayPreExist ==
  { i \in 1..Len(PathSeq) :
      i % 2 = 1 \/ PathSeq[i] = temp_path(get_state_path(alice)) }

InitDirs ==
  { [path \in Paths |-> IF IndexOf(path) \in S THEN IndexOf(path) ELSE 0] :
      S \in SUBSET MayPreExist }

InitData(d) ==
  [i \in InoIds |->
     IF i <= Len(PathSeq) /\ d[PathSeq[i]] = i
     THEN (IF i % 2 = 1 THEN OldData ELSE StaleData)
     ELSE <<>>]

Init ==
  /\ dir \in InitDirs
  /\ data = InitData(dir)
  /\ proc = [p \in Procs |-> IdleProc]
  /\ trace = [p \in Procs |-> {}]
  /\ pre = Snapshot

(* ------------------------------ main ----------------------------------- *)

Log(p, op, path) == trace' = [trace EXCEPT ![p] = @ \cup {<<op, path>>}]

\* the process record after it has left main with an exit status
Exited(r, code, d) == [r EXCEPT !.pc = "done", !.exit = code, !.diag = d]

\* status(): fopen(filename, "r") succeeds.  The files of the model are the
\* ones this program writes, which the process may read (it runs as their
\* owner or as root), so fopen succeeds exactly when the name exists.
status(d, filename) == Lookup(d, filename) # 0

\* main up to the switch: the option loop, umask, get_user, get_state_path.
\* None of it touches the state directory.  mem: malloc did not fail.
Start(p, argvs, uids, payloads) ==
  /\ proc[p].pc = "idle"
  /\ UNCHANGED pre
  /\ \E argv \in argvs, uid \in uids, mem \in BOOLEAN :
       LET g == getopt_loop(argv, 1, CMD_NULL, NULL, 0)
           r0 == [proc[p] EXCEPT !.argv = argv, !.uid = uid]
           name == getpwuid(uid)
       IN CASE g.kind = "usage" ->
                 proc' = [proc EXCEPT ![p] = Exited(r0, 1, "UsageError")]
            [] g.kind \in {"help", "version"} ->
                 proc' = [proc EXCEPT ![p] = Exited(r0, 0, "")]
            [] OTHER ->
                 LET r1 == [r0 EXCEPT !.cmd = g.cmd, !.givenuser = g.givenuser,
                                      !.umask = UMASK, !.username = name]
                 IN IF name = NULL
                    THEN proc' = [proc EXCEPT ![p] = Exited(r1, 1, "IdentityUnknown")]
                    ELSE IF ~mem
                    THEN proc' = [proc EXCEPT ![p] = Exited(r1, 1, "AllocFailed")]
                    ELSE \E pl \in (IF g.cmd = CMD_ENABLE THEN payloads ELSE {<<>>}) :
                           proc' = [proc EXCEPT ![p] =
                                      [r1 EXCEPT !.state_path = get_state_path(name),
                                                 !.fd3 = pl, !.payload = pl,
                                                 !.pc = "dispatch"]]
  /\ UNCHANGED <<dir, data, trace>>

\* MainEnable without the test of status(): enable is always called
MainEnable_NoCheck(p) ==
  /\ proc[p].pc = "dispatch"
  /\ UNCHANGED pre
  /\ proc[p].cmd = CMD_ENABLE
  /\ Log(p, "fopen", proc[p].state_path)
  /\ proc' = [proc EXCEPT ![p].pc = "e_entry"]
  /\ UNCHANGED <<dir, data>>

\* case CMD_ENABLE: enable only if status() says there is no state file
MainEnable(p) ==
  /\ proc[p].pc = "dispatch"
  /\ UNCHANGED pre
  /\ proc[p].cmd = CMD_ENABLE
  /\ Log(p, "fopen", proc[p].state_path)
  /\ IF status(dir, proc[p].state_path) = FALSE
     THEN proc' = [proc EXCEPT ![p].pc = "e_entry"]
     ELSE proc' = [proc EXCEPT ![p].pc = "exit", ![p].diag = "AlreadyEnabled"]
  /\ UNCHANGED <<dir, data>>

\* MainDisable without the test of getuid(): anyone may disable
MainDisable_NoRootCheck(p) ==
  /\ proc[p].pc = "dispatch"
  /\ UNCHANGED pre
  /\ proc[p].cmd = CMD_DISABLE
  /\ \E mem \in BOOLEAN :
       proc' = [proc EXCEPT ![p].pc = "d_unlink",
                  ![p].state_path =
                     IF mem THEN get_state_path(proc[p].givenuser) ELSE NULL]
  /\ UNCHANGED <<dir, data, trace>>

\* MainDisable that keeps the state path main built for the invoker
MainDisable_OwnPath(p) ==
  /\ proc[p].pc = "dispatch"
  /\ UNCHANGED pre
  /\ proc[p].cmd = CMD_DISABLE
  /\ IF proc[p].uid = 0
     THEN proc' = [proc EXCEPT ![p].pc = "d_unlink"]
     ELSE proc' = [proc EXCEPT ![p].pc = "exit", ![p].diag = "NotAuthorized"]
  /\ UNCHANGED <<dir, data, trace>>

\* case CMD_DISABLE: only root; the path is rebuilt for the given user
MainDisable(p) ==
  /\ proc[p].pc = "dispatch"
  /\ UNCHANGED pre
  /\ proc[p].cmd = CMD_DISABLE
  /\ IF proc[p].uid = 0
     THEN \E mem \in BOOLEAN :
            proc' = [proc EXCEPT ![p].pc = "d_unlink",
                       ![p].state_path =
                          IF mem THEN get_state_path(proc[p].givenuser) ELSE NULL]
     ELSE proc' = [proc EXCEPT ![p].pc = "exit", ![p].diag = "NotAuthorized"]
  /\ UNCHANGED <<dir, data, trace>>

\* case CMD_STATUS
MainStatus(p) ==
  /\ proc[p].pc = "dispatch"
  /\ UNCHANGED pre
  /\ proc[p].cmd = CMD_STATUS
  /\ Log(p, "fopen", proc[p].state_path)
  /\ proc' = [proc EXCEPT ![p].pc = "exit",
                ![p].ret = IF status(dir, proc[p].state_path) THEN true ELSE false]
  /\ UNCHANGED <<dir, data>>

\* return ret ? 0 : 1; a ret that no branch assigned is read uninitialised
Exit(p) ==
  /\ proc[p].pc = "exit"
  /\ UNCHANGED pre
  /\ \E code \in (IF proc[p].ret = UNINIT THEN {0, 1}
                  ELSE IF proc[p].ret = true THEN {0} ELSE {1}) :
       proc' = [proc EXCEPT ![p].pc = "done", ![p].exit = code]
  /\ UNCHANGED <<dir, data, trace>>

(* ------------------------------ disable -------------------------------- *)

\* disable(): unlink; success and ENOENT are both success.  ok: unlink did
\* not fail with another error.  A NULL path fails with EFAULT.
unlink_errno(d, path, ok) ==
  IF ~ok \/ path = NULL THEN "EOTHER"
  ELSE IF Lookup(d, path) = 0 THEN "ENOENT" ELSE "OK"

\* the mistaken test that takes every error of unlink, ENOENT too, for a failure
disable_ok_Strict(errno) == errno = "OK"

\* if (ret == 0 || errno == ENOENT) return true
disable_ok(errno) == errno = "OK" \/ errno = "ENOENT"

DisableUnlink(p) ==
  /\ proc[p].pc = "d_unlink"
  /\ UNCHANGED pre
  /\ Log(p, "unlink", proc[p].state_path)
  /\ \E ok \in BOOLEAN :
       LET errno == unlink_errno(dir, proc[p].state_path, ok) IN
       IF disable_ok(errno)
       THEN /\ dir' = Unlink(dir, proc[p].state_path)
            /\ proc' = [proc EXCEPT ![p].pc = "exit", ![p].ret = true,
                                    ![p].errno = errno]
            /\ data' = Reclaim(dir', data, proc')
       ELSE /\ proc' = [proc EXCEPT ![p].pc = "exit", ![p].ret = false,
                                    ![p].diag = "RemoveFailed",
                                    ![p].errno = errno]
            /\ UNCHANGED <<dir, data>>

\* disable() called directly with a state path
CallDisable(p, paths) ==
  /\ proc[p].pc = "idle"
  /\ UNCHANGED pre
  /\ \E sp \in paths :
       proc' = [proc EXCEPT ![p] =
                  [@ EXCEPT !.pc = "d_unlink", !.cmd = CMD_DISABLE,
                            !.state_path = sp]]
  /\ UNCHANGED <<dir, data, trace>>

\* disable() called once more on the same path, right after it returned
DisableAgain(p) ==
  /\ proc[p].pc = "exit"
  /\ UNCHANGED pre
  /\ proc[p].cmd = CMD_DISABLE
  /\ proc[p].runs + 1 < MaxRuns
  /\ proc' = [proc EXCEPT ![p] =
                [@ EXCEPT !.pc = "d_unlink", !.ret = UNINIT, !.diag = "",
                          !.errno = "", !.runs = @ + 1]]
  /\ UNCHANGED <<dir, data, trace>>

(* ------------------------------- enable -------------------------------- *)

\* enable() called directly with a state path and an input stream
CallEnable(p, paths, payloads) ==
  /\ proc[p].pc = "idle"
  /\ UNCHANGED pre
  /\ \E sp \in paths, pl \in payloads :
       proc' = [proc EXCEPT ![p] =
                  [@ EXCEPT !.pc = "e_entry", !.cmd = CMD_ENABLE, !.umask = UMASK,
                            !.state_path = sp, !.fd3 = pl, !.payload = pl]]
  /\ UNCHANGED <<dir, data, trace>>

\* malloc and snprintf of the temporary file name
EnableEntry(p) ==
  /\ proc[p].pc = "e_entry"
  /\ UNCHANGED pre
  /\ \E mem \in BOOLEAN :
       IF mem
       THEN proc' = [proc EXCEPT ![p].pc = "e_unlink",
                       ![p].tmp_buf = temp_path(proc[p].state_path)]
       ELSE proc' = [proc EXCEPT ![p].pc = "exit", ![p].ret = false,
                       ![p].diag = "AllocFailed"]
  /\ UNCHANGED <<dir, data, trace>>

\* EnableUnlink without the unlink: whatever is at tmp_buf stays there
EnableUnlink_Skip(p) ==
  /\ proc[p].pc = "e_unlink"
  /\ UNCHANGED pre
  /\ proc' = [proc EXCEPT ![p].pc = "e_open"]
  /\ UNCHANGED <<dir, data, trace>>

\* ret = unlink(tmp_buf); ENOENT is not an error
EnableUnlink(p) ==
  /\ proc[p].pc = "e_unlink"
  /\ UNCHANGED pre
  /\ Log(p, "unlink", proc[p].tmp_buf)
  /\ \E ok \in BOOLEAN :
       IF ok
       THEN /\ dir' = Unlink(dir, proc[p].tmp_buf)
            /\ proc' = [proc EXCEPT ![p].pc = "e_open"]
            /\ data' = Reclaim(dir', data, proc')
       ELSE /\ proc' = [proc EXCEPT ![p].pc = "exit", ![p].ret = false,
                          ![p].diag = "TempUnlinkFailed"]
            /\ UNCHANGED <<dir, data>>

\* the permission bits a new file gets: mode & ~umask
RECURSIVE AndNot(_, _)
AndNot(a, b) ==
  IF a = 0 THEN 0
  ELSE (a % 2) * (1 - (b % 2)) + 2 * AndNot(a \div 2, b \div 2)

CreateMode(mode, umask) == AndNot(mode, umask)

\* the mode written without its leading zero, in decimal
TempMode_Decimal == 6 * 100

\* the third argument of open() in enable()
TempMode == MODE_0600

\* EnableOpen creating the file under its final name: open(state_path, ...)
EnableOpen_InPlace(p) ==
  /\ proc[p].pc = "e_open"
  /\ UNCHANGED pre
  /\ Log(p, "open", proc[p].state_path)
  /\ \E ok \in BOOLEAN :
       IF ok /\ Lookup(dir, proc[p].state_path) = 0
       THEN /\ dir' = [dir EXCEPT ![proc[p].state_path] = NewInode]
            /\ data' = [data EXCEPT ![NewInode] = <<>>]
            /\ proc' = [proc EXCEPT ![p].pc = "e_read", ![p].out_fd = NewInode,
                          ![p].mode = CreateMode(TempMode, proc[p].umask)]
       ELSE /\ proc' = [proc EXCEPT ![p].pc = "exit", ![p].ret = false,
                          ![p].diag = "TempCreateFailed"]
            /\ UNCHANGED <<dir, data>>

\* out_fd = open(tmp_buf, O_WRONLY|O_CREAT|O_EXCL, 0600): fails if the name
\* exists (EEXIST) or for any other reason (ok = FALSE)
EnableOpen(p) ==
  /\ proc[p].pc = "e_open"
  /\ UNCHANGED pre
  /\ Log(p, "open", proc[p].tmp_buf)
  /\ \E ok \in BOOLEAN :
       IF ok /\ Lookup(dir, proc[p].tmp_buf) = 0
       THEN /\ dir' = [dir EXCEPT ![proc[p].tmp_buf] = NewInode]
            /\ data' = [data EXCEPT ![NewInode] = <<>>]
            /\ proc' = [proc EXCEPT ![p].pc = "e_read", ![p].out_fd = NewInode,
                          ![p].mode = CreateMode(TempMode, proc[p].umask)]
       ELSE /\ proc' = [proc EXCEPT ![p].pc = "exit", ![p].ret = false,
                          ![p].diag = "TempCreateFailed"]
            /\ UNCHANGED <<dir, data>>

\* the process p after close(out_fd) on an error path of the copy loop
CopyFailed(p, d) ==
  [proc EXCEPT ![p].pc = "e_cleanup", ![p].out_fd = 0, ![p].buf = <<>>,
               ![p].diag = d]

\* rd = read(in_fd, buf, sizeof buf): 0 at end of stream, -1 on error, else
\* any number of bytes from 1 to what is there and fits the buffer
EnableRead(p) ==
  /\ proc[p].pc = "e_read"
  /\ UNCHANGED pre
  /\ Log(p, "read", <<"3">>)
  /\ \/ /\ proc[p].fd3 = <<>>
        /\ proc' = [proc EXCEPT ![p].pc = "e_close"]
        /\ UNCHANGED <<dir, data>>
     \/ /\ \E rd \in 1..Min(BufSize, Len(proc[p].fd3)) :
             proc' = [proc EXCEPT ![p].pc = "e_write",
                        ![p].buf = Take(proc[p].fd3, rd),
                        ![p].fd3 = Drop(proc[p].fd3, rd)]
        /\ UNCHANGED <<dir, data>>
     \/ /\ proc' = CopyFailed(p, "InputReadFailed")
        /\ data' = Reclaim(dir, data, proc')
        /\ UNCHANGED dir

\* wr = write(out_fd, buf, rd): -1 on error, else the number of bytes the
\* kernel took, from 1 to rd.  The loop tests wr only against -1 and goes on
\* to the next read.
EnableWrite(p) ==
  /\ proc[p].pc = "e_write"
  /\ UNCHANGED pre
  /\ Log(p, "write", proc[p].tmp_buf)
  /\ \/ /\ \E wr \in 1..Len(proc[p].buf) :
             /\ data' = [data EXCEPT ![proc[p].out_fd] = @ \o Take(proc[p].buf, wr)]
             /\ proc' = [proc EXCEPT ![p].pc = "e_read", ![p].buf = <<>>,
                           ![p].written = @ \o Take(proc[p].buf, wr),
                           ![p].short = @ \/ wr < Len(proc[p].buf)]
        /\ UNCHANGED dir
     \/ /\ proc' = CopyFailed(p, "TempWriteFailed")
        /\ data' = Reclaim(dir, data, proc')
        /\ UNCHANGED dir

\* close(out_fd); its result is not looked at.  ok: close reported no error
EnableClose(p) ==
  /\ proc[p].pc = "e_close"
  /\ UNCHANGED pre
  /\ Log(p, "close", proc[p].tmp_buf)
  /\ \E ok \in BOOLEAN :
       proc' = [proc EXCEPT ![p].pc = "e_rename", ![p].out_fd = 0,
                  ![p].closefail = ~ok]
  /\ data' = Reclaim(dir, data, proc')
  /\ UNCHANGED dir

\* ret = rename(tmp_buf, state_path): one atomic step of the file system;
\* fails if tmp_buf names nothing (ENOENT) or for any other reason
EnableRename(p) ==
  /\ proc[p].pc = "e_rename"
  /\ UNCHANGED pre
  /\ Log(p, "rename", proc[p].tmp_buf)
  /\ \E ok \in BOOLEAN :
       IF ok /\ Lookup(dir, proc[p].tmp_buf) # 0
       THEN /\ dir' = [dir EXCEPT ![proc[p].state_path] = dir[proc[p].tmp_buf],
                                  ![proc[p].tmp_buf] = 0]
            /\ proc' = [proc EXCEPT ![p].pc = "exit", ![p].ret = true]
            /\ data' = Reclaim(dir', data, proc')
       ELSE /\ proc' = [proc EXCEPT ![p].pc = "e_cleanup", ![p].diag = "CommitFailed"]
            /\ UNCHANGED <<dir, data>>

\* EnableCleanup removing the wrong name: unlink(state_path)
EnableCleanup_WrongName(p) ==
  /\ proc[p].pc = "e_cleanup"
  /\ UNCHANGED pre
  /\ Log(p, "unlink", proc[p].state_path)
  /\ \E ok \in BOOLEAN :
       /\ dir' = IF ok THEN Unlink(dir, proc[p].state_path) ELSE dir
       /\ proc' = [proc EXCEPT ![p].pc = "exit", ![p].ret = false,
                     ![p].cleanfail = ~ok /\ Lookup(dir, proc[p].state_path) # 0]
  /\ data' = Reclaim(dir', data, proc')

\* EnableCleanup that returns false without the unlink
EnableCleanup_Skip(p) ==
  /\ proc[p].pc = "e_cleanup"
  /\ UNCHANGED pre
  /\ proc' = [proc EXCEPT ![p].pc = "exit", ![p].ret = false]
  /\ UNCHANGED <<dir, data, trace>>

\* unlink(tmp_buf) of the error paths, its result not looked at; return false.
\* cleanfail: the unlink failed and left the file where it was
EnableCleanup(p) ==
  /\ proc[p].pc = "e_cleanup"
  /\ UNCHANGED pre
  /\ Log(p, "unlink", proc[p].tmp_buf)
  /\ \E ok \in BOOLEAN :
       /\ dir' = IF ok THEN Unlink(dir, proc[p].tmp_buf) ELSE dir
       /\ proc' = [proc EXCEPT ![p].pc = "exit", ![p].ret = false,
                     ![p].cleanfail = ~ok /\ Lookup(dir, proc[p].tmp_buf) # 0]
  /\ data' = Reclaim(dir', data, proc')

\* the process is killed: the kernel closes its descriptors
Crash(p) ==
  /\ proc[p].pc \notin {"idle", "done", "crashed"}
  /\ UNCHANGED pre
  /\ proc' = [proc EXCEPT ![p].pc = "crashed", ![p].out_fd = 0]
  /\ data' = Reclaim(dir, data, proc')
  /\ UNCHANGED <<dir, trace>>

(* --------------------------- specifications ---------------------------- *)

\* the payload of process p when the payload is not what is examined
PayloadOf(p) == [i \in 1..MaxLen |-> 10 * p + i]

\* one invocation of the program, from any command line, by any user
Next ==
  \/ Start(1, Argvs, Uids, {PayloadOf(1)})
  \/ MainEnable(1)
  \/ MainDisable(1)
  \/ MainStatus(1)
  \/ DisableUnlink(1)
  \/ EnableEntry(1)
  \/ EnableUnlink(1)
  \/ EnableOpen(1)
  \/ EnableRead(1)
  \/ EnableWrite(1)
  \/ EnableClose(1)
  \/ EnableRename(1)
  \/ EnableCleanup(1)
  \/ Exit(1)

Spec == Init /\ [][Next]_vars

\* one call of enable() on any state path, with any payload, which may be
\* killed at any step
NextEnable ==
  \/ CallEnable(1, {get_state_path(alice), get_state_path(bob)}, Payloads)
  \/ EnableEntry(1)
  \/ EnableUnlink(1)
  \/ EnableOpen(1)
  \/ EnableRead(1)
  \/ EnableWrite(1)
  \/ EnableClose(1)
  \/ EnableRename(1)
  \/ EnableCleanup(1)
  \/ Crash(1)

SpecEnable == Init /\ [][NextEnable]_vars

\* two invocations of --enable by alice at the same time
InitConc ==
  /\ Init
  /\ \A path \in Paths :
       dir[path] # 0 =>
         path \in {get_state_path(alice), temp_path(get_state_path(alice))}

EnableArgv == <<Tok("--enable", <<"-", "-", "e", "n", "a", "b", "l", "e">>)>>

NextConc ==
  \E p \in Procs :
    \/ Start(p, {EnableArgv}, {1000}, {PayloadOf(p)})
    \/ MainEnable(p)
    \/ EnableEntry(p)
    \/ EnableUnlink(p)
    \/ EnableOpen(p)
    \/ EnableRead(p)
    \/ EnableWrite(p)
    \/ EnableClose(p)
    \/ EnableRename(p)
    \/ EnableCleanup(p)
    \/ Exit(p)

SpecConc == InitConc /\ [][NextConc]_vars

(* ------------------------------ claims --------------------------------- *)

IsPrefix(s, t) == Len(s) <= Len(t) /\ s = Take(t, Len(s))

C2_PayloadVerbatim ==
  LET r == proc[1] IN
  (r.pc = "exit" /\ r.ret = true) => Content(r.state_path) = r.payload

\* C5: whenever enable returns failure, the state path is as it was before
\* the call: absent if it was absent, else with its old contents.
C5_FailureLeavesState ==
  LET r == proc[1] IN
  (r.pc = "exit" /\ r.ret = false) =>
     Content(r.state_path) = pre[r.state_path]

\* C5 witness: a write failed during the copy, enable returned false, and the
\* state file that existed before still holds its old contents.
C5_Witness ==
  LET r == proc[1] IN
  /\ r.pc = "exit"
  /\ r.ret = false
  /\ r.diag = "TempWriteFailed"
  /\ r.written # <<>>
  /\ pre[r.state_path] = OldData
  /\ Content(r.state_path) = OldData

SPa == get_state_path(alice)
TPa == temp_path(SPa)

\* C3 (as claimed): with two enables of the same user running at once and
\* every write complete, the state path never shows anything but the file
\* that was there before or the whole payload of one of the two.
C3_NoTruncatedVisible ==
  (\A p \in Procs : ~proc[p].short) =>
     Content(SPa) \in {pre[SPa], PayloadOf(1), PayloadOf(2)}

\* C4 (as claimed): of two enables of the same user running at once at most
\* one reports success, and neither takes the temporary path away from the
\* file the other has open for writing.
C4_OneWinner ==
  /\ ~(proc[1].ret = true /\ proc[2].ret = true)
  /\ \A p \in Procs :
       proc[p].pc \in {"e_read", "e_write", "e_close"} =>
          Lookup(dir, TPa) = proc[p].out_fd

\* the invocation got past the option loop, get_user and get_state_path
Running(r) == r.pc \notin {"idle"} /\ r.cmd # CMD_NULL /\ r.username # NULL
                 /\ r.state_path # NULL

\* C6: --disable by an invoker whose real uid is not 0 issues no file-system
\* call at all (no unlink in particular) and leaves every file as it was.
C6_DisableNeedsRoot ==
  LET r == proc[1] IN
  (r.pc # "idle" /\ r.cmd = CMD_DISABLE /\ r.uid # 0) =>
     /\ trace[1] = {}
     /\ Snapshot = pre
     /\ r.ret # true

\* C6 witness: alice (uid 1000) ran --disable on her own existing state file
\* and was turned away; the file is still there.
C6_Witness ==
  LET r == proc[1] IN
  /\ r.pc = "done"
  /\ r.cmd = CMD_DISABLE
  /\ r.uid = 1000
  /\ r.givenuser = alice
  /\ r.diag = "NotAuthorized"
  /\ pre[SPa] = OldData
  /\ Content(SPa) = OldData

C8_ExitStatus ==
  LET r == proc[1] IN
  r.pc = "done" =>
     r.exit = (IF r.diag # "" THEN 1
               ELSE IF r.cmd = CMD_STATUS /\ r.ret = false THEN 1
               ELSE 0)

\* the calls of process p that name a file (read is on fd 3; a call handed
\* NULL after a failed malloc fails with EFAULT and names none)
FsCalls(p) == {e \in trace[p] : e[1] # "read" /\ e[2] # NULL}

HasSlash(name) == \E i \in 1..Len(name) : name[i] = "/"

\* path is GAUTH_STATEDIR, one '/', and one component without '/'
InStateDir(path) ==
  /\ Len(path) > Len(GAUTH_STATEDIR) + 1
  /\ Take(path, Len(GAUTH_STATEDIR) + 1) = GAUTH_STATEDIR \o <<"/">>
  /\ ~HasSlash(Drop(path, Len(GAUTH_STATEDIR) + 1))

\* C9 (as claimed): a target user name with a '/' in it is rejected as
\* InvalidUsername before any file-system call, so every path the program
\* hands to the file system is one level below the state directory.
C9_NoSlashInName ==
  LET r == proc[1] IN
  /\ (r.cmd = CMD_DISABLE /\ HasSlash(r.givenuser)) =>
        /\ FsCalls(1) = {}
        /\ r.ret # true
  /\ \A e \in FsCalls(1) : InStateDir(e[2])

\* the state path main must work on: the invoker's for --enable and
\* --status, the named user's for --disable
TargetPath(r) ==
  IF r.cmd = CMD_DISABLE THEN get_state_path(r.givenuser)
  ELSE get_state_path(getpwuid(r.uid))

\* the paths a command may change
MayChange(r) ==
  CASE r.cmd = CMD_ENABLE -> {TargetPath(r), temp_path(TargetPath(r))}
    [] r.cmd = CMD_DISABLE /\ r.uid = 0 -> {TargetPath(r)}
    [] OTHER -> {}

\* C10: a command names and changes only its target user's files: the
\* invoker's state path (and its temporary path) for --enable, nothing for
\* --status, the state path of the USERNAME argument for --disable by root;
\* every other path, the invoker's own state path included, stays as it was.
C10_OnlyTargetFiles ==
  LET r == proc[1] IN
  (r.pc # "idle" /\ r.cmd # CMD_NULL /\ r.username # NULL) =>
     /\ \A path \in Paths \ MayChange(r) : Content(path) = pre[path]
     /\ \A e \in FsCalls(1) : e[2] \in {TargetPath(r), temp_path(TargetPath(r))}

\* C10 witness: root ran --disable for bob: bob's state file is gone and
\* root's own state file is untouched.
C10_Witness ==
  LET r == proc[1] IN
  /\ r.pc = "done"
  /\ r.cmd = CMD_DISABLE
  /\ r.uid = 0
  /\ r.givenuser = bob
  /\ r.exit = 0
  /\ pre[get_state_path(bob)] = OldData
  /\ Content(get_state_path(bob)) = Absent
  /\ pre[get_state_path(root)] = OldData
  /\ Content(get_state_path(root)) = OldData

(* ------------------------- claims C11 .. C20 --------------------------- *)

\* the command-line surface as documented: --enable/-e and --status/-s take
\* no argument, --disable/-d takes USERNAME; anything else that is not an
\* option is a positional argument
ActionOpts == {"--enable", "-e", "--disable", "-d", "--status", "-s"}

RECURSIVE SurfaceActions(_, _)
SurfaceActions(argv, i) ==
  IF i > Len(argv) THEN 0
  ELSE IF argv[i].opt \in {"-d", "--disable"} THEN 1 + SurfaceActions(argv, i + 2)
  ELSE IF argv[i].opt \in ActionOpts THEN 1 + SurfaceActions(argv, i + 1)
  ELSE SurfaceActions(argv, i + 1)

RECURSIVE SurfacePositionals(_, _)
SurfacePositionals(argv, i) ==
  IF i > Len(argv) THEN 0
  ELSE IF argv[i].opt \in {"-d", "--disable"} THEN SurfacePositionals(argv, i + 2)
  ELSE IF argv[i].opt = "word" THEN 1 + SurfacePositionals(argv, i + 1)
  ELSE SurfacePositionals(argv, i + 1)

\* argv holds only action options, their arguments and positional words
OnlyActionsAndWords(argv) ==
  \A i \in 1..Len(argv) : argv[i].opt \in ActionOpts \cup {"word"}

\* C11 (as claimed): a command line with no primary action, with more than
\* one, or with a positional argument is rejected before any command runs:
\* the program ends at once with exit 1 (the usage message) and makes no
\* call on a state file.
C11_UsageOnBadCommandLine ==
  LET r == proc[1] IN
  (/\ r.pc # "idle"
   /\ OnlyActionsAndWords(r.argv)
   /\ \/ SurfaceActions(r.argv, 1) # 1
      \/ SurfacePositionals(r.argv, 1) > 0) =>
     /\ r.pc = "done"
     /\ r.exit = 1
     /\ trace[1] = {}

\* disable() called on any state path, up to MaxRuns times in a row
NextDisable ==
  \/ CallDisable(1, {get_state_path(alice), get_state_path(bob)})
  \/ DisableUnlink(1)
  \/ DisableAgain(1)

SpecDisable == Init /\ [][NextDisable]_vars

\* C12: whenever disable() returns, on a first call or on a repeated one, it
\* has failed exactly when unlink failed with an error other than "not found",
\* and after a success nothing exists at the state path, whether a file was
\* there before the call or not.
C12_DisableIdempotent ==
  LET r == proc[1] IN
  (r.cmd = CMD_DISABLE /\ r.pc = "exit") =>
     /\ (r.ret = false) <=> (r.errno = "EOTHER")
     /\ r.ret = true => Content(r.state_path) = Absent

\* a second disable() returns true on the path the first one has emptied
C12_Witness ==
  LET r == proc[1] IN
  /\ r.cmd = CMD_DISABLE /\ r.pc = "exit" /\ r.runs = 1
  /\ pre[r.state_path] = OldData
  /\ r.errno = "ENOENT" /\ r.ret = true
  /\ Content(r.state_path) = Absent

\* what a reader would see at a path that is a directory
DirMark == <<-2>>

\* the state directory as --status may find it: at a user's state path there
\* may be nothing, a file, or a directory that somebody made there
InitStatusData(d) ==
  { [i \in InoIds |-> IF i \in D THEN DirMark ELSE InitData(d)[i]] :
      D \in SUBSET { i \in 1..Len(PathSeq) : i % 2 = 1 /\ d[PathSeq[i]] = i } }

InitStatus ==
  /\ dir \in InitDirs
  /\ data \in InitStatusData(dir)
  /\ proc = [p \in Procs |-> IdleProc]
  /\ trace = [p \in Procs |-> {}]
  /\ pre = Snapshot

StatusArgvs ==
  { <<Tok("--status", <<"-", "-", "s", "t", "a", "t", "u", "s">>)>>,
    <<Tok("-s", <<"-", "s">>)>> }

\* one invocation of --status by any user
NextStatus ==
  \/ Start(1, StatusArgvs, Uids, {<<>>})
  \/ MainStatus(1)
  \/ Exit(1)

SpecStatus == InitStatus /\ [][NextStatus]_vars

IsRegular(content) == content \notin {Absent, DirMark}

\* C13 (as claimed): status() returns true exactly when a regular file exists
\* at the state path; --status then exits 0, and exits 1 when there is none;
\* in both cases no file is changed.
C13_StatusIffRegularFile ==
  LET r == proc[1] IN
  (r.cmd = CMD_STATUS /\ r.ret # UNINIT) =>
     /\ (r.ret = true) <=> IsRegular(Content(r.state_path))
     /\ r.pc = "done" =>
          r.exit = (IF IsRegular(Content(r.state_path)) THEN 0 ELSE 1)
     /\ Snapshot = pre

\* C14: the process has its umask at 077 from before enable() is entered, so
\* before it creates any file, and the one file it creates, under the
\* temporary name and later renamed to the state path, has the permission
\* bits 0600 from its creation on (nothing changes them afterwards).
C14_Mode0600 ==
  LET r == proc[1] IN
  /\ r.pc \in {"e_entry", "e_unlink", "e_open", "e_read", "e_write", "e_close",
               "e_rename", "e_cleanup"} => r.umask = UMASK
  /\ r.mode # -1 => r.mode = MODE_0600
  /\ r.out_fd # 0 => r.mode = MODE_0600

\* an Enable has committed the file it created with mode 0600
C14_Witness ==
  LET r == proc[1] IN
  /\ r.cmd = CMD_ENABLE /\ r.ret = true /\ r.argv # <<>>
  /\ r.umask = UMASK /\ r.mode = MODE_0600
  /\ Content(r.state_path) = r.written /\ r.written # <<>>

(* ---------------------------- authenticate ----------------------------- *)

PAM_SUCCESS == "PAM_SUCCESS"

\* what a PAM call may return: success or some error code
PamResults == {PAM_SUCCESS, "PAM_ERR"}

\* authenticate(): pam_start, pam_authenticate, pam_acct_mgmt, pam_end, each
\* checked in turn; the result of pam_authenticate is overwritten with
\* PAM_SUCCESS before it is tested
authenticate(start, auth, acct, end) ==
  IF start # PAM_SUCCESS THEN false
  ELSE LET ret == PAM_SUCCESS IN
       IF ret # PAM_SUCCESS THEN false
       ELSE IF acct # PAM_SUCCESS THEN false
       ELSE IF end # PAM_SUCCESS THEN false
       ELSE true

\* authenticate() called for a user, PAM answering each call as it likes
CallAuthenticate(p, names) ==
  /\ proc[p].pc = "idle"
  /\ UNCHANGED pre
  /\ \E name \in names, start \in PamResults, auth \in PamResults,
        acct \in PamResults, end \in PamResults :
       proc' = [proc EXCEPT ![p] =
                  [@ EXCEPT !.pc = "authed", !.username = name,
                            !.pam = [start |-> start, auth |-> auth,
                                     acct |-> acct, end |-> end],
                            !.ret = authenticate(start, auth, acct, end)]]
  /\ UNCHANGED <<dir, data, trace>>

NextAuth == CallAuthenticate(1, {root, alice, bob})

SpecAuth == Init /\ [][NextAuth]_vars

\* C15 (as claimed): authenticate() reports failure whenever the PAM
\* authenticate step or the PAM account-management step did not succeed.
C15_AuthFailureReported ==
  LET r == proc[1] IN
  (r.pc = "authed" /\ r.pam.start = PAM_SUCCESS
     /\ (r.pam.auth # PAM_SUCCESS \/ r.pam.acct # PAM_SUCCESS)) =>
       r.ret = false

\* C16 (as claimed): after enable() has returned, with success or after a
\* read, write or rename error, no file exists at the temporary path and the
\* descriptor of the temporary file is closed.
C16_TempGoneAfterReturn ==
  LET r == proc[1] IN
  (r.pc = "exit"
     /\ (r.ret = true
           \/ r.diag \in {"InputReadFailed", "TempWriteFailed", "CommitFailed"})) =>
       /\ Content(temp_path(r.state_path)) = Absent
       /\ r.out_fd = 0

\* C16 (amended): after enable() has returned, the descriptor of the
\* temporary file is closed, and a file exists at the temporary path only if
\* it could not be removed: the cleanup unlink failed, the unlink before the
\* create failed, or enable failed before it had built the temporary name.
C16_TempGoneUnlessUnlinkFailed ==
  LET r == proc[1] IN
  r.pc = "exit" =>
     /\ r.out_fd = 0
     /\ Content(temp_path(r.state_path)) # Absent =>
          \/ r.cleanfail
          \/ r.diag \in {"TempUnlinkFailed", "AllocFailed"}

\* a write failed after part of the payload had reached the temporary file;
\* enable closed the file, removed it and returned false
C16_Witness ==
  LET r == proc[1] IN
  /\ r.pc = "exit" /\ r.ret = false
  /\ r.diag = "TempWriteFailed" /\ r.written # <<>>
  /\ ~r.cleanfail
  /\ r.out_fd = 0
  /\ Content(temp_path(r.state_path)) = Absent

\* C17 (as claimed): when close() of the temporary file fails, enable()
\* returns failure without having renamed, and the state path is as it was.
C17_CloseFailureIsFailure ==
  LET r == proc[1] IN
  (r.pc = "exit" /\ r.closefail) =>
     /\ r.ret = false
     /\ <<"rename", r.tmp_buf>> \notin trace[1]
     /\ Content(r.state_path) = pre[r.state_path]

(* ------------------- Enable and Disable at the same time --------------- *)

DisableArgv ==
  <<Tok("--disable", <<"-", "-", "d", "i", "s", "a", "b", "l", "e">>),
    Tok("word", alice)>>

\* alice runs --enable (process 1) while root runs --disable alice
\* (process 2), their steps interleaved in any order
NextRace ==
  \/ Start(1, {EnableArgv}, {1000}, {PayloadOf(1)})
  \/ MainEnable(1)
  \/ EnableEntry(1)
  \/ EnableUnlink(1)
  \/ EnableOpen(1)
  \/ EnableRead(1)
  \/ EnableWrite(1)
  \/ EnableClose(1)
  \/ EnableRename(1)
  \/ EnableCleanup(1)
  \/ Exit(1)
  \/ Start(2, {DisableArgv}, {0}, {<<>>})
  \/ MainDisable(2)
  \/ DisableUnlink(2)
  \/ Exit(2)

SpecRace == InitConc /\ [][NextRace]_vars

\* both commands have ended and each reported success
RaceOver ==
  /\ proc[1].pc = "done" /\ proc[1].ret = true
  /\ proc[2].pc = "done" /\ proc[2].ret = true

\* C18 (as claimed): when an Enable of alice and a Disable of alice by root
\* have run at the same time and both have succeeded, alice's state path is
\* absent or holds the complete payload of the Enable, and no temporary file
\* is left.
C18_RaceOutcome ==
  RaceOver =>
    /\ Content(SPa) \in {Absent, proc[1].payload}
    /\ Content(TPa) = Absent

\* the same outcome when no write of the Enable was short
C18_RaceOutcomeFullWrites ==
  (RaceOver /\ ~proc[1].short) =>
    /\ Content(SPa) \in {Absent, proc[1].payload}
    /\ Content(TPa) = Absent

(* --------------------- one invocation after another -------------------- *)

SeqArgvs ==
  { EnableArgv,
    <<Tok("--status", <<"-", "-", "s", "t", "a", "t", "u", "s">>)>>,
    DisableArgv,
    <<Tok("--disable", <<"-", "-", "d", "i", "s", "a", "b", "l", "e">>),
      Tok("word", bob)>> }

\* the process has exited; the next invocation starts from the files as
\* they are now
Restart(p) ==
  /\ proc[p].pc = "done"
  /\ UNCHANGED pre
  /\ proc[p].runs + 1 < MaxRuns
  /\ proc' = [proc EXCEPT ![p] = [IdleProc EXCEPT !.runs = proc[p].runs + 1]]
  /\ trace' = [trace EXCEPT ![p] = {}]
  /\ UNCHANGED <<dir, data>>

\* up to MaxRuns invocations, none overlapping another, each by any user
\* with any of the three commands
NextSeq ==
  \/ Start(1, SeqArgvs, Uids, {PayloadOf(1)})
  \/ MainEnable(1)
  \/ MainDisable(1)
  \/ MainStatus(1)
  \/ Exit(1)
  \/ DisableUnlink(1)
  \/ EnableEntry(1)
  \/ EnableUnlink(1)
  \/ EnableOpen(1)
  \/ EnableRead(1)
  \/ EnableWrite(1)
  \/ EnableClose(1)
  \/ EnableRename(1)
  \/ EnableCleanup(1)
  \/ Restart(1)

SpecSeq == Init /\ [][NextSeq]_vars

\* the accounts of the password database
Accounts == {root, alice, bob, anew}

\* a step removes or changes the state file that the user has
Loses(name) ==
  /\ Content(get_state_path(name)) # Absent
  /\ Content(get_state_path(name))' # Content(get_state_path(name))

\* C19 (as claimed): once a user's state path exists, the only step that
\* removes it or changes its contents is the unlink of a Disable run by a
\* process whose real uid is 0.
C19_OnlyRootDisableRemoves ==
  [][\A name \in Accounts :
       Loses(name) => (proc[1].uid = 0 /\ proc[1].pc = "d_unlink")]_vars

\* the same for the accounts none of which is named after another's
\* temporary path
C19_OnlyRootDisableRemovesPlainNames ==
  [][\A name \in Accounts \ {anew} :
       Loses(name) => (proc[1].uid = 0 /\ proc[1].pc = "d_unlink")]_vars

\* C20: when a temporary file of an earlier, interrupted enable is there at
\* the start, enable() has removed it by the time it creates its own (so the
\* exclusive create does not meet it), the temporary file then holds only
\* what this call has written, and after a successful return the state path
\* holds what this call wrote, bytes of its payload only and the whole
\* payload if no write was short, and nothing of the stale file.
BytesOf(s) == {s[i] : i \in 1..Len(s)}

C20_StaleTempHarmless ==
  LET r == proc[1] IN
  (r.pc \notin {"idle", "crashed"}
     /\ pre[temp_path(r.state_path)] = StaleData) =>
       /\ r.pc = "e_open" => Content(r.tmp_buf) = Absent
       /\ r.pc \in {"e_read", "e_write", "e_close", "e_rename"} =>
            /\ Content(r.tmp_buf) = r.written
            /\ BytesOf(r.written) \subseteq BytesOf(r.payload)
            /\ BytesOf(r.written) \cap BytesOf(StaleData) = {}
       /\ (r.pc = "exit" /\ r.ret = true) =>
            /\ Content(r.state_path) = r.written
            /\ BytesOf(r.written) \subseteq BytesOf(r.payload)
            /\ BytesOf(r.written) \cap BytesOf(StaleData) = {}
            /\ ~r.short => Content(r.state_path) = r.payload
            /\ Content(r.tmp_buf) = Absent

\* a stale temporary file was there, enable returned true, and the state
\* path holds the whole new payload
C20_Witness ==
  LET r == proc[1] IN
  /\ r.pc = "exit" /\ r.ret = true
  /\ pre[temp_path(r.state_path)] = StaleData
  /\ r.payload # <<>>
  /\ Content(r.state_path) = r.payload
  /\ Content(r.tmp_buf) = Absent

=============================================================================
